---- MODULE Spec2Model ----
(***************************************************************************)
(* Actor-critic solver for the discrete mean field game and its IRL        *)
(* extension.                                                              *)
(*                                                                         *)
(*   variant = "ac"   class actor_critic of src/mfg_ac.py (vector theta)   *)
(*   variant = "irl"  class AC_IRL of src/ac_irl.py (scalar theta)         *)
(*                                                                         *)
(* Numbers.  A distribution pi is a vector of numerators over one common   *)
(* denominator, [num |-> <<n_1..n_d>>, den |-> D]; den = 0 stands for a    *)
(* vector of NaN.  A sampled matrix P is kept as the Gamma variates y and  *)
(* the row totals, P_ij = y[i][j] / total[i]; total[i] = 0 stands for a    *)
(* row of NaN (0/0).  Gamma variates are counted in units of the           *)
(* replacement value 1e-20 of ac_irl.py:146 (Eps).  theta and w are real   *)
(* parameters whose updates involve digamma and logarithms: they are kept  *)
(* as version numbers (the number of updates applied), and every quantity  *)
(* computed from them records the versions and operands it was computed    *)
(* from.                                                                   *)
(***************************************************************************)
EXTENDS Integers, Sequences, FiniteSets, TLC

\* ---------------------------------------------------------------- bounds
d == 2
MaxAlpha == 1
MaxDraw == 2
MaxScale == 2
MaxDen == 6
MaxEpisodes == 2
MaxTraj == 2
MaxTotalHours == 3
MaxConsecutive == 2
MaxIterations == 2
MaxGenerated == 1
MaxForward == 1
MaxFiles == 3
MaxDim == 3
MaxValue == 3
MaxRows == 2

\* ------------------------------------------------------ program constants
EpisodeLength == 15
max_hour == 16
Eps == 1
DemoLength == 15
OuterConsecutive == 100
EpsJSD == 1

Idx == 1..d
NaNv == 0 - 1
Infinity == 0 - 2

\* ------------------------------------------------------------ arithmetic
Abs(x) == IF x < 0 THEN 0 - x ELSE x

RECURSIVE GCD(_, _)
GCD(a, b) == IF b = 0 THEN a ELSE GCD(b, a % b)

RECURSIVE SumTo(_, _)
SumTo(f, n) == IF n = 0 THEN 0 ELSE f[n] + SumTo(f, n - 1)

Sum(f) == SumTo(f, d)

RECURSIVE ProdExceptTo(_, _, _)
ProdExceptTo(f, skip, n) ==
    IF n = 0 THEN 1
    ELSE (IF n = skip THEN 1 ELSE f[n]) * ProdExceptTo(f, skip, n - 1)

ProdExcept(f, skip) == ProdExceptTo(f, skip, d)
Prod(f) == ProdExceptTo(f, 0, d)

RECURSIVE GCDTo(_, _, _)
GCDTo(f, n, acc) == IF n = 0 THEN acc ELSE GCDTo(f, n - 1, GCD(acc, Abs(f[n])))

\* A rational in lowest terms.
Rat(n, m) == LET g == GCD(Abs(n), m) IN [num |-> n \div g, den |-> m \div g]
RatMul(a, b) == Rat(a.num * b.num, a.den * b.den)
RatAdd(a, b) == Rat(a.num * b.den + b.num * a.den, a.den * b.den)
RatSub(a, b) == RatAdd(a, [num |-> 0 - b.num, den |-> b.den])
RatDiv(a, b) == Rat(a.num * b.den, a.den * b.num)
Half == [num |-> 1, den |-> 2]

RECURSIVE RatSumTo(_, _)
RatSumTo(v, k) ==
    IF k = 0 THEN [num |-> 0, den |-> 1] ELSE RatAdd(v[k], RatSumTo(v, k - 1))
NaNRat == [num |-> 0, den |-> 0]

\* ---------------------------------------------------------- distributions
NaNPi == [num |-> [i \in Idx |-> 0], den |-> 0]
IsNaNPi(p) == p.den = 0

ReducePi(num, den) ==
    LET g == GCDTo(num, d, den)
    IN [num |-> [i \in Idx |-> num[i] \div g], den |-> den \div g]

ValidPi(p) ==
    /\ p.den > 0
    /\ \A i \in Idx : p.num[i] >= 0
    /\ Sum(p.num) = p.den

\* init_pi0: one row of mat_pi0 per file of the state directory, here the
\* uniform distribution and a skewed one.
init_pi0 ==
    << [num |-> [i \in Idx |-> 1], den |-> d],
       [num |-> [i \in Idx |-> IF i = d THEN d + 1 ELSE 1], den |-> 2 * d] >>

num_start_samples == Len(init_pi0)

\* -------------------------------------------------------------- matrices
ZeroMatrix == [i \in Idx |-> [j \in Idx |-> 0]]
NaNMatrix == [i \in Idx |-> [j \in Idx |-> NaNv]]
NaNP == [y |-> ZeroMatrix, total |-> [i \in Idx |-> 0]]

RowStochastic(P) ==
    \A i \in Idx :
        /\ P.total[i] > 0
        /\ \A j \in Idx : P.y[i][j] >= 0
        /\ Sum(P.y[i]) = P.total[i]


\* ---------------------------------------------------------- sample_action
\* Gamma variates equal to 0 are replaced by the dummy value.
ReplaceZeros(y) == [j \in Idx |-> IF y[j] = 0 THEN Eps ELSE y[j]]

\* The total of all entries but the last.
RowTotalShort(y) == SumTo(y, d - 1)

\* total = np.sum(y)
RowTotal(y) == Sum(y)

\* P[i] = y / total, for every row.
Normalise(ys) == [y |-> ys, total |-> [i \in Idx |-> RowTotal(ys[i])]]

\* The concentration values kept in a local: the field stays as constructed.
CacheAlphaLocal(val, th, p) ==
    [val |-> ZeroMatrix, theta |-> NaNv, pi |-> [num |-> [i \in Idx |-> 0], den |-> 0]]

\* What sample_action leaves in self.mat_alpha: the concentration values,
\* and the theta and pi they were computed from.
CacheAlpha(val, th, p) == [val |-> val, theta |-> th, pi |-> p]

\* What sample_action leaves in self.tensor_phi: phi(i, j, pi) for all i, j.
CachePhi(p) == [pi |-> p]

\* The fields as __init__ leaves them (np.zeros).
InitAlpha == [val |-> ZeroMatrix, theta |-> NaNv, pi |-> NaNPi]
InitPhi == [pi |-> NaNPi]

\* Concentration matrices the model lets theta and pi produce: one value
\* on the diagonal (pi_j - pi_i = 0), one off it.
AlphaMatrices ==
    { [i \in Idx |-> [j \in Idx |-> IF i = j THEN a ELSE b]] :
        a \in 0..MaxAlpha, b \in 0..MaxAlpha }

\* Gamma(shape, 1) is 0 for shape 0 and any value >= 0 otherwise.
GammaDraws(shape) ==
    { y \in [Idx -> [Idx -> 0..MaxDraw]] :
        \A i \in Idx : \A j \in Idx : shape[i][j] = 0 => y[i][j] = 0 }

NonPositive(alpha) == \E i \in Idx : \E j \in Idx : alpha[i][j] # NaNv /\ alpha[i][j] <= 0

\* A sample_action call as its caller sees it.  printed: the message of
\* mfg_ac.py:151; sampled: Gamma variates were drawn; warned: the division by
\* the total raised a warning; logged: the handler printed; raised: an
\* exception left the call; returned: a matrix was returned.
NoCall ==
    [called |-> FALSE, alpha |-> ZeroMatrix, shape |-> ZeroMatrix,
     draws |-> ZeroMatrix, printed |-> FALSE, sampled |-> FALSE, warned |-> FALSE, logged |-> FALSE,
     raised |-> FALSE, returned |-> FALSE]

\* a * k in floating point, k finite or inf: 0 * inf is NaN.
Times(a, k) == IF k = Infinity THEN (IF a = 0 THEN NaNv ELSE Infinity) ELSE a * k

ScaleMatrix(a, k) == [i \in Idx |-> [j \in Idx |-> Times(a[i][j], k)]]

\* actor_critic.sample_action: alpha = (phi . theta)^2, a message for every
\* element <= 0, then the Gamma variates and the division by their total.
\* A pi of NaN gives alpha, variates and P of NaN.
sample_action_ac(p) ==
    IF IsNaNPi(p)
    THEN { [call |-> [NoCall EXCEPT !.called = TRUE, !.alpha = NaNMatrix, !.shape = NaNMatrix,
                                   !.draws = NaNMatrix, !.sampled = TRUE,
                                   !.returned = TRUE],
            P |-> NaNP] }
    ELSE UNION { { [call |-> [NoCall EXCEPT !.called = TRUE, !.alpha = a, !.shape = a, !.draws = y,
                                           !.printed = NonPositive(a),
                                           !.sampled = TRUE, !.returned = TRUE],
                    P |-> Normalise(y)] : y \in GammaDraws(a) } :
                 a \in AlphaMatrices }

\* AC_IRL.sample_action: alpha = ln(1 + exp(theta (pi_j - pi_i - shift))),
\* Gamma variates of shape alpha * alpha_scale, zeros replaced, division by
\* the total inside try/except Warning.  warnings.filterwarnings('error')
\* makes every numeric warning an exception.  With alpha_scale = inf the
\* first row either has a zero alpha (0 * inf: the warning leaves the call at
\* the multiplication) or has variates inf (inf / inf: the warning is caught,
\* the handler repeats the division before its print, and the warning of the
\* repeated division leaves the call).
sample_action_irl(p, scale) ==
    IF scale = Infinity
    THEN { [call |-> [NoCall EXCEPT !.called = TRUE, !.alpha = a, !.shape = ScaleMatrix(a, scale),
                                   !.sampled = (\A j \in Idx : a[1][j] # 0),
                                   !.warned = (\A j \in Idx : a[1][j] # 0),
                                   !.raised = TRUE],
            P |-> NaNP] : a \in AlphaMatrices }
    ELSE UNION { { [call |-> [NoCall EXCEPT !.called = TRUE, !.alpha = a,
                                           !.shape = ScaleMatrix(a, scale),
                                           !.draws = y, !.sampled = TRUE,
                                           !.returned = TRUE],
                    P |-> Normalise([i \in Idx |-> ReplaceZeros(y[i])])] :
                     y \in GammaDraws(ScaleMatrix(a, scale)) } :
                 a \in AlphaMatrices }

\* ------------------------------------------------------- pi_next = P^T pi
\* P pi, the transpose forgotten: sum_i P[j][i] * pi[i]
TransitionUntransposed(P, p) ==
    IF IsNaNPi(p) \/ \E i \in Idx : P.total[i] = 0
    THEN NaNPi
    ELSE LET terms(j) == [i \in Idx |-> P.y[j][i] * p.num[i] * ProdExcept(P.total, j)]
         IN ReducePi([j \in Idx |-> Sum(terms(j))], p.den * Prod(P.total))

\* pi_next[j] = sum_i P[i][j] * pi[i]
Transition(P, p) ==
    IF IsNaNPi(p) \/ \E i \in Idx : P.total[i] = 0
    THEN NaNPi
    ELSE LET terms(j) == [i \in Idx |-> P.y[i][j] * p.num[i] * ProdExcept(P.total, i)]
         IN ReducePi([j \in Idx |-> Sum(terms(j))], p.den * Prod(P.total))

\* ------------------------------------------------------------ reward/cost
\* The entries of P not squared: sum_i pi_i sum_j P_ij (pi_i - pi_j)
calc_cost_linear(P, p) ==
    IF IsNaNPi(p) \/ \E i \in Idx : P.total[i] = 0
    THEN NaNRat
    ELSE LET v(i) == [j \in Idx |-> P.y[i][j] * (p.num[i] - p.num[j])]
             terms == [i \in Idx |-> p.num[i] * Sum(v(i)) * ProdExcept(P.total, i)]
         IN Rat(Sum(terms), p.den * p.den * Prod(P.total))

\* R = sum_i pi_i sum_j (P_ij)^2 (pi_i - pi_j)
calc_cost(P, p) ==
    IF IsNaNPi(p) \/ \E i \in Idx : P.total[i] = 0
    THEN NaNRat
    ELSE LET sq == [i \in Idx |-> P.total[i] * P.total[i]]
             v(i) == [j \in Idx |-> P.y[i][j] * P.y[i][j] * (p.num[i] - p.num[j])]
             terms == [i \in Idx |-> p.num[i] * Sum(v(i)) * ProdExcept(sq, i)]
         IN Rat(Sum(terms), p.den * p.den * Prod(sq))

\* calc_reward is inherited from mfg_ac2, which is not among the sources.
calc_reward(P, p) == calc_cost(P, p)

\* ------------------------------------------------------- names and arrays
\* pi = self.mat_pi0[idx_row, :] makes pi a view of row idx_row of the pool;
\* view = 0 stands for a pi that owns its array.  An assignment through the
\* name, pi[:] = value, writes the row the name views.
AssignPiInPlace(pool, view, value) ==
    IF view = 0 THEN pool ELSE [pool EXCEPT ![view] = value]

\* pi = pi_next and pi = np.transpose(P).dot(pi) bind the name to a new
\* array: the pool is as it was.
AssignPi(pool, view, value) == pool

\* ----------------------------------------------------------- trajectories
\* A trajectory under construction: the number of pairs appended, the state
\* of the last pair, and the state the last pair leads to,
\* transpose(action) . state.
NoTrajectory == [len |-> 0, state |-> NaNPi, succ |-> NaNPi]

\* The pair appended is made of the next state.
AppendPairLate(t, p, Pm) ==
    [len |-> t.len + 1, state |-> Transition(Pm, p),
     succ |-> Transition(Pm, Transition(Pm, p))]

\* trajectory.append((pi, P))
AppendPair(t, p, Pm) ==
    [len |-> t.len + 1, state |-> p, succ |-> Transition(Pm, p)]

\* A finished trajectory as the lists hold it: the iteration and index of
\* the rollout that made it, and its number of pairs.
Finished(iter, idx, t) == [it |-> iter, idx |-> idx, pairs |-> t.len]

\* The set is left as it was: the new trajectories are dropped.
KeepGenerated(held, new) == held

\* self.list_generated = self.list_generated + list_generated
AppendGenerated(held, new) == held \o new

\* ---------------------------------------------------------- demonstrations
\* range(a, b)
Range(a, b) == a..(b - 1)

\* The state directory holds one file per row of the pool.
num_file_state == Len(init_pi0)

\* The trajectory read from the files of one day: a pair for every hour in
\* range(0, 15).
DayTrajectory(day) == [day |-> day, pairs |-> Cardinality(Range(0, DemoLength))]

\* -------------------------------------------------------------- reporting
\* reward_avg = sum(list_reward) / consecutive.  The total of an episode is
\* named by the index of the episode.
Average(list, by) == [window |-> list, by |-> by]
NoReport == Average(<< >>, 0)

\* --------------------------------------------------------------- features
\* num_features = int((d+1)*d / 2 + d + 1)
init_w(dd) == ((dd + 1) * dd) \div 2 + dd + 1

\* Pairs without repetition: the indices after the advanced one are set one
\* above its value.
RECURSIVE combinations(_, _, _)
combinations(n, a, b) ==
    IF a >= n THEN << >>
    ELSE << << a, b >> >> \o (IF b < n THEN combinations(n, a, b + 1)
                                   ELSE combinations(n, a + 1, a + 2))

\* itertools.combinations_with_replacement(range(n), 2): from the pair
\* (a, b) the rightmost index below n is advanced and the indices after it
\* are set to its value.
RECURSIVE combinations_with_replacement(_, _, _)
combinations_with_replacement(n, a, b) ==
    IF a > n THEN << >>
    ELSE << << a, b >> >> \o (IF b < n THEN combinations_with_replacement(n, a, b + 1)
                                   ELSE combinations_with_replacement(n, a + 1, a + 1))

\* calc_features(pi): the products of the pairs, then pi, then the bias 1.
calc_features(p) ==
    LET list_tuples == combinations_with_replacement(Len(p), 1, 1)
        list_features == [k \in 1..Len(list_tuples) |->
                             p[list_tuples[k][1]] * p[list_tuples[k][2]]]
    IN Append(list_features \o p, 1)

\* ---------------------------------------------------------------- reorder
\* A pair placed ahead of the pairs of its own value.
RECURSIVE InsertAhead(_, _)
InsertAhead(sorted, pair) ==
    IF sorted = << >> THEN << pair >>
    ELSE IF Head(sorted)[2] > pair[2]
         THEN << Head(sorted) >> \o InsertAhead(Tail(sorted), pair)
         ELSE << pair >> \o sorted

\* list.sort(reverse=True, key=...) is stable: a pair goes behind every pair
\* of a greater value, and behind the pairs of its own value that came
\* before it.
RECURSIVE Insert(_, _)
Insert(sorted, pair) ==
    IF sorted = << >> THEN << pair >>
    ELSE IF Head(sorted)[2] >= pair[2]
         THEN << Head(sorted) >> \o Insert(Tail(sorted), pair)
         ELSE << pair >> \o sorted

\* list_pairs.sort(reverse=True, key=lambda x: x[1])
RECURSIVE SortTo(_, _)
SortTo(list_pairs, k) ==
    IF k = 0 THEN << >> ELSE Insert(SortTo(list_pairs, k - 1), list_pairs[k])

\* reorder(list_rows): the columns in the order of the first row sorted by
\* decreasing value.  Columns are counted from 1.
reorder(rows) ==
    LET row1 == rows[1]
        list_pairs == [i \in 1..Len(row1) |-> << i, row1[i] >>]
        sorted == SortTo(list_pairs, Len(list_pairs))
        order == [k \in 1..Len(sorted) |-> sorted[k][1]]
    IN [i \in 1..Len(rows) |-> [k \in 1..Len(order) |-> rows[i][order[k]]]]

\* ------------------------------------------------------------- divergence
\* Entries of P and Q are counted in units of the value that replaces a zero.
\* P[P==0] = 1e-100
ReplaceExactZeros(v) == [i \in 1..Len(v) |-> IF v[i] = 0 THEN EpsJSD ELSE v[i]]

\* norm(P, ord=1)
norm(v) == RatSumTo([i \in 1..Len(v) |-> Rat(Abs(v[i]), 1)], Len(v))

\* A sum of terms coef * log(arg) as a number: the coefficient of every
\* log(arg), with log(1) = 0 and the terms of coefficient 0 left out.  Equal
\* sets are equal numbers.
LogArgs(terms) == { terms[k].arg : k \in 1..Len(terms) }
LogCoef(terms, a) ==
    RatSumTo([k \in 1..Len(terms) |->
                 IF terms[k].arg = a THEN terms[k].coef ELSE [num |-> 0, den |-> 1]],
             Len(terms))
LogSum(terms) ==
    { t \in { [arg |-> a, coef |-> LogCoef(terms, a)] : a \in LogArgs(terms) } :
          t.arg # [num |-> 1, den |-> 1] /\ t.coef.num # 0 }

\* scipy.stats.entropy(pk, qk): both arguments are divided by their sums,
\* then the terms rel_entr(pk, qk) = pk * log(pk / qk) are summed (a term of
\* pk = 0 is 0).
entropy(pk, qk) ==
    LET sum_pk == RatSumTo(pk, Len(pk))
        sum_qk == RatSumTo(qk, Len(qk))
        p == [i \in 1..Len(pk) |-> RatDiv(pk[i], sum_pk)]
        q == [i \in 1..Len(qk) |-> RatDiv(qk[i], sum_qk)]
    IN [i \in 1..Len(pk) |->
           IF p[i].num = 0 THEN [coef |-> p[i], arg |-> [num |-> 1, den |-> 1]]
           ELSE [coef |-> p[i], arg |-> RatDiv(p[i], q[i])]]

\* M = P: the mixture taken from the first argument alone.
MixtureFirst(Pz, Qz) == [i \in 1..Len(Pz) |-> Rat(Pz[i], 1)]

\* M = 0.5 * (P + Q)
Mixture(Pz, Qz) == [i \in 1..Len(Pz) |-> RatMul(Half, Rat(Pz[i] + Qz[i], 1))]

\* JSD(P, Q): the zeros of both arrays are replaced in place, P_normed and
\* Q_normed are computed and not used, and 0.5 * (entropy(P, M) +
\* entropy(Q, M)) is returned.
JSD(Pa, Qa) ==
    LET Pz == ReplaceExactZeros(Pa)
        Qz == ReplaceExactZeros(Qa)
        P_normed == [i \in 1..Len(Pz) |-> RatDiv(Rat(Pz[i], 1), norm(Pz))]
        Q_normed == [i \in 1..Len(Qz) |-> RatDiv(Rat(Qz[i], 1), norm(Qz))]
        M == Mixture(Pz, Qz)
        Pr == [i \in 1..Len(Pz) |-> Rat(Pz[i], 1)]
        Qr == [i \in 1..Len(Qz) |-> Rat(Qz[i], 1)]
        terms == entropy(Pr, M) \o entropy(Qr, M)
    IN [P |-> Pz, Q |-> Qz,
        value |-> LogSum([k \in 1..Len(terms) |->
                             [coef |-> RatMul(Half, terms[k].coef),
                              arg |-> terms[k].arg]])]

\* ----------------------------------------------------------------- state
VARIABLES
    variant,        \* class of the object: "ac" or "irl"
    alpha_scale,    \* self.alpha_scale
    mat_alpha,      \* self.mat_alpha
    tensor_phi,     \* self.tensor_phi
    theta,          \* self.theta: number of updates applied
    w,              \* self.w: number of updates applied
    mat_pi0,        \* self.mat_pi0
    list_demonstrations,    \* self.list_demonstrations
    self_list_generated,    \* self.list_generated
    op,             \* the method running
    caller,         \* "outerloop" while outerloop or a method it called runs
    pc,             \* its position
    err,            \* exception that ended the call
    num_episodes,   \* arguments of train
    gamma,
    constant,
    consecutive,
    episode,        \* locals of train
    num_steps,
    discount,
    pi,
    pi_view,        \* the row of the pool pi is a view of, or 0
    pi_next,
    P,
    delta,
    list_reward,
    reward_avg,     \* the last average reported
    call,           \* the sample_action call of this iteration
    w_upd,          \* operands of the last w update
    theta_upd,      \* operands of the last theta update
    n_sample,       \* sample_action calls, w updates and theta updates
    n_w,            \*   of the running episode
    n_theta,
    stochastic,     \* every P applied to pi since its start was row-stochastic
    n,              \* argument of generate_trajectories
    total_hours,    \* argument of generate_trajectory
    idx_traj,       \* locals of the rollouts
    hour,
    trajectory,     \* the trajectory of the running rollout
    list_generated, \* the local list_generated
    num_iterations, \* arguments of outerloop
    num_generated,
    num_forward_episodes,
    it,             \* iterations of outerloop completed
    num_file_action,    \* locals of read_demonstrations
    idx_day,
    weird,          \* "Weird" was printed
    features_pi,    \* argument of calc_features
    vec_features,   \* its result
    jsd_P,          \* the arrays passed to JSD
    jsd_Q,
    jsd_value,      \* JSD(P, Q)
    jsd_swapped,    \* JSD(Q, P)
    list_rows,      \* argument of reorder, as passed
    reordered       \* the list after the call, which is returned

vars ==
    << variant, alpha_scale, mat_alpha, tensor_phi, theta, w, mat_pi0,
       list_demonstrations, self_list_generated, op, caller, pc, err,
       num_episodes, gamma, constant, consecutive, episode, num_steps, discount,
       pi, pi_view, pi_next, P, delta, list_reward, reward_avg, call, w_upd,
       theta_upd, n_sample, n_w, n_theta, stochastic, n, total_hours, idx_traj,
       hour, trajectory, list_generated, num_iterations, num_generated,
       num_forward_episodes, it, num_file_action, idx_day, weird, features_pi,
       vec_features, jsd_P, jsd_Q, jsd_value, jsd_swapped, list_rows, reordered >>

object == << variant, alpha_scale, op >>
sets == << mat_pi0, list_demonstrations, self_list_generated >>
params == << num_episodes, gamma, constant >>
counters == << n_sample, n_w, n_theta >>
rollout == << n, total_hours, idx_traj, hour, trajectory, list_generated >>
train_locals == << episode, num_steps, discount, pi_next, delta, w_upd, theta_upd >>
reporting == << consecutive, list_reward, reward_avg >>
outer == << caller, num_iterations, num_generated, num_forward_episodes, it >>
loading == << num_file_action, idx_day, weird >>
features == << features_pi, vec_features >>
divergence == << jsd_P, jsd_Q, jsd_value, jsd_swapped >>
reordering == << list_rows, reordered >>

One == [num |-> 1, den |-> 1]
Gammas == { One, [num |-> 1, den |-> 2] }

NoDelta == [reward |-> NaNRat, coef |-> NaNRat, v_next |-> NaNPi, v |-> NaNPi, w |-> NaNv]
NoGradient == [P |-> NaNP, alpha |-> InitAlpha, phi |-> InitPhi, theta |-> NaNv]
NoUpdate == [sign |-> 0, rate |-> NaNRat, delta |-> NoDelta, by |-> NoGradient]

\* num_iterations: a number, or an iterable of so many elements.
Iterations == [iterable : BOOLEAN, len : 0..MaxIterations]

\* The locals of all methods before any call.
NoLocals ==
    /\ op = "none"
    /\ caller = "none"
    /\ err = "none"
    /\ num_episodes = 0
    /\ gamma = One
    /\ constant = FALSE
    /\ consecutive = 1
    /\ episode = 0
    /\ num_steps = 0
    /\ discount = One
    /\ pi = NaNPi
    /\ pi_view = 0
    /\ pi_next = NaNPi
    /\ P = NaNP
    /\ delta = NoDelta
    /\ list_reward = << >>
    /\ reward_avg = NoReport
    /\ call = NoCall
    /\ w_upd = NoUpdate
    /\ theta_upd = NoUpdate
    /\ n_sample = 0
    /\ n_w = 0
    /\ n_theta = 0
    /\ stochastic = TRUE
    /\ n = 0
    /\ total_hours = 0
    /\ idx_traj = 0
    /\ hour = 0
    /\ trajectory = NoTrajectory
    /\ list_generated = << >>
    /\ num_iterations = [iterable |-> FALSE, len |-> 0]
    /\ num_generated = 0
    /\ num_forward_episodes = 0
    /\ it = 0
    /\ idx_day = 0
    /\ vec_features = << >>
    /\ jsd_value = NaNv
    /\ jsd_swapped = NaNv
    /\ reordered = << >>

\* The fields as actor_critic.__init__ leaves them, and the pool.
Constructed ==
    /\ variant \in {"ac", "irl"}
    /\ alpha_scale \in (IF variant = "irl" THEN {MaxScale, Infinity} ELSE {1})
    /\ mat_alpha = InitAlpha
    /\ tensor_phi = InitPhi
    /\ theta = 0
    /\ w = 0
    /\ mat_pi0 = init_pi0

\* The object after construction from directories of num_file_state days,
\* complete in both.
Loaded ==
    /\ list_demonstrations = [day \in 1..num_file_state |-> DayTrajectory(day)]
    /\ self_list_generated = << >>
    /\ num_file_action = num_file_state
    /\ weird = FALSE
    /\ pc = "idle"

\* No pure function has been given arguments.
NoArguments ==
    /\ jsd_P = << >>
    /\ jsd_Q = << >>
    /\ list_rows = << >>

Init ==
    /\ Constructed
    /\ Loaded
    /\ NoLocals
    /\ features_pi = << >>
    /\ NoArguments

\* ------------------------------------------------------------------ train
\* train(num_episodes, gamma, ..., consecutive): list_reward = [], then the
\* episode loop.  actor_critic.train loads the pool first.
train(ne, g, c, cons) ==
    /\ op' = "train"
    /\ mat_pi0' = IF variant = "ac" THEN init_pi0 ELSE mat_pi0
    /\ num_episodes' = ne
    /\ gamma' = g
    /\ constant' = c
    /\ consecutive' = cons
    /\ episode' = 0
    /\ list_reward' = << >>
    /\ reward_avg' = NoReport
    /\ pc' = "episode"
    /\ UNCHANGED << variant, alpha_scale, mat_alpha, tensor_phi, theta, w, err,
                    num_steps, discount, pi, pi_view, pi_next, P, delta, call,
                    w_upd, theta_upd, counters, stochastic, rollout,
                    list_demonstrations, self_list_generated, outer, loading,
                    features,
                    divergence, reordering >>

\* A call of train on the object.  actor_critic.train has no parameter
\* `constant` and never decays its rates.
Train(ne, g, c, cons) ==
    /\ pc = "idle"
    /\ variant = "ac" => c
    /\ train(ne, g, c, cons)

\* for episode in range(num_episodes): start state from a row of mat_pi0.
EpisodeStart(idx_row) ==
    /\ pc = "episode"
    /\ episode < num_episodes
    /\ pi' = mat_pi0[idx_row]
    /\ pi_view' = idx_row
    /\ discount' = One
    /\ num_steps' = 0
    /\ n_sample' = 0
    /\ n_w' = 0
    /\ n_theta' = 0
    /\ stochastic' = TRUE
    /\ pc' = "step"
    /\ UNCHANGED << object, params, mat_alpha, tensor_phi, theta, w, err, episode,
                    pi_next, P, delta, call, w_upd, theta_upd, rollout, sets,
                    reporting, outer, loading, features,
                    divergence, reordering >>

\* Writes of sample_action(pi) and its result r.
SampleCall(r) ==
    /\ call' = r.call
    /\ mat_alpha' = CacheAlpha(r.call.alpha, theta, pi)
    /\ tensor_phi' = IF variant = "ac" THEN CachePhi(pi) ELSE tensor_phi
    /\ P' = IF r.call.returned THEN r.P ELSE P

SampleResults ==
    IF variant = "ac" THEN sample_action_ac(pi) ELSE sample_action_irl(pi, alpha_scale)

\* The variates a run may draw: pi_next stays within the denominators kept.
Kept(r) == r.call.returned => Transition(r.P, pi).den <= MaxDen

\* while num_steps < 15: num_steps += 1; P = self.sample_action(pi)
Sample ==
    /\ pc = "step"
    /\ num_steps < EpisodeLength
    /\ num_steps' = num_steps + 1
    /\ \E r \in SampleResults :
        /\ Kept(r)
        /\ SampleCall(r)
        /\ pc' = IF r.call.raised THEN "crashed" ELSE "critic"
        /\ err' = IF r.call.raised THEN "Warning" ELSE err
        /\ n_sample' = n_sample + 1
    /\ UNCHANGED << object, params, theta, w, episode, discount, pi, pi_view,
                    pi_next, delta, w_upd, theta_upd, n_w, n_theta, stochastic,
                    rollout, sets, reporting, outer, loading, features,
                    divergence, reordering >>

\* TD error of actor_critic.train:
\*   delta = cost + gamma * (features_next . w) - (features . w)
td_error_ac(r, g, disc, pn, p, wv) ==
    [reward |-> r, coef |-> g, v_next |-> pn, v |-> p, w |-> wv]

\* TD error of AC_IRL.train:
\*   delta = reward + discount * (features_next . w) - (features . w)
td_error_irl(r, g, disc, pn, p, wv) ==
    [reward |-> r, coef |-> disc, v_next |-> pn, v |-> p, w |-> wv]

\* Step size of the w update, as a multiple of lr_critic.
critic_rate == IF constant THEN One ELSE Rat(1, episode + 1)

\* pi_next = P^T pi, reward, TD error, w <- w + rate * delta * features(pi)
Critic ==
    /\ pc = "critic"
    /\ pi_next' = Transition(P, pi)
    /\ delta' = IF variant = "ac"
                THEN td_error_ac(calc_cost(P, pi), gamma, discount, pi_next', pi, w)
                ELSE td_error_irl(calc_reward(P, pi), gamma, discount, pi_next', pi, w)
    /\ w_upd' = [sign |-> 1, rate |-> critic_rate, delta |-> delta',
                 by |-> [NoGradient EXCEPT !.phi = CachePhi(pi)]]
    /\ w' = w + 1
    /\ n_w' = n_w + 1
    /\ pc' = "actor"
    /\ UNCHANGED << object, params, mat_alpha, tensor_phi, theta, err, episode,
                    num_steps, discount, pi, pi_view, P, call, theta_upd, n_sample,
                    n_theta, stochastic, rollout, sets, reporting, outer, loading,
                    features,
                    divergence, reordering >>

\* actor_critic.calc_gradient(P, pi): from P and the fields mat_alpha,
\* tensor_phi and theta.
calc_gradient(Pm) == [P |-> Pm, alpha |-> mat_alpha, phi |-> tensor_phi, theta |-> theta]

\* theta <- theta - lr_actor * delta * gradient
theta_update_ac(dl, grad) == [sign |-> 0 - 1, rate |-> One, delta |-> dl, by |-> grad]

\* gradient = self.calc_gradient(P, pi), then the theta update.
ActorAC ==
    /\ pc = "actor"
    /\ variant = "ac"
    /\ theta_upd' = theta_update_ac(delta, calc_gradient(P))
    /\ theta' = theta + 1
    /\ n_theta' = n_theta + 1
    /\ pc' = "advance"
    /\ UNCHANGED << object, params, mat_alpha, tensor_phi, w, err, episode,
                    num_steps, discount, pi, pi_view, pi_next, P, delta, call,
                    w_upd, n_sample, n_w, stochastic, rollout, sets, reporting,
                    outer, loading, features,
                    divergence, reordering >>

\* gradient = self.calc_gradient_vectorized(P, pi): its first statement,
\* self.calc_alpha_deriv(pi), calls a function declared without self with two
\* arguments: TypeError, and train ends with it.
ActorIRL ==
    /\ pc = "actor"
    /\ variant = "irl"
    /\ pc' = "crashed"
    /\ err' = "TypeError"
    /\ UNCHANGED << object, params, mat_alpha, tensor_phi, theta, w, episode,
                    num_steps, discount, pi, pi_view, pi_next, P, delta, call,
                    w_upd, theta_upd, counters, stochastic, rollout, sets,
                    reporting, outer, loading, features,
                    divergence, reordering >>

\* discount = discount * gamma; pi = pi_next; the values of this iteration
\* are dead from here on.
Advance ==
    /\ pc = "advance"
    /\ discount' = RatMul(discount, gamma)
    /\ pi' = pi_next
    /\ mat_pi0' = AssignPi(mat_pi0, pi_view, pi_next)
    /\ pi_view' = 0
    /\ stochastic' = (stochastic /\ RowStochastic(P))
    /\ pi_next' = NaNPi
    /\ P' = NaNP
    /\ delta' = NoDelta
    /\ call' = NoCall
    /\ w_upd' = NoUpdate
    /\ theta_upd' = NoUpdate
    /\ pc' = "step"
    /\ UNCHANGED << object, params, mat_alpha, tensor_phi, theta, w, err, episode,
                    num_steps, counters, rollout, list_demonstrations,
                    self_list_generated, reporting, outer, loading, features,
                    divergence, reordering >>

\* The while loop ends at num_steps = 15: list_reward.append(total_reward);
\* if episode % consecutive == 0, the average is reported and the list is
\* emptied.
EpisodeEnd ==
    /\ pc = "step"
    /\ num_steps = EpisodeLength
    /\ LET appended == Append(list_reward, episode)
       IN IF episode % consecutive = 0
          THEN /\ reward_avg' = Average(appended, consecutive)
               /\ list_reward' = << >>
          ELSE /\ reward_avg' = reward_avg
               /\ list_reward' = appended
    /\ episode' = episode + 1
    /\ pc' = "episode"
    /\ UNCHANGED << object, params, consecutive, mat_alpha, tensor_phi, theta, w,
                    err, num_steps, discount, pi, pi_view, pi_next, P, delta, call,
                    w_upd, theta_upd, counters, stochastic, rollout, sets, outer,
                    loading, features,
                    divergence, reordering >>

\* range(num_episodes) is exhausted: train returns, to outerloop (whose
\* iteration ends with it) or to the caller of the object.
TrainReturn ==
    /\ pc = "episode"
    /\ episode = num_episodes
    /\ IF caller = "outerloop"
       THEN /\ op' = "outerloop"
            /\ it' = it + 1
            /\ pc' = "outer"
       ELSE /\ pc' = "done"
            /\ UNCHANGED << op, it >>
    /\ UNCHANGED << variant, alpha_scale, params, mat_alpha, tensor_phi, theta, w,
                    err, episode, num_steps, discount, pi, pi_view, pi_next, P,
                    delta, call, w_upd, theta_upd, counters, stochastic, rollout,
                    sets, reporting, caller, num_iterations, num_generated,
                    num_forward_episodes, loading, features,
                    divergence, reordering >>

\* ---------------------------------------------------------------- rollouts
\* generate_trajectories(n): list_generated = [], then the loop.
generate_trajectories(k) ==
    /\ op' = "generate_trajectories"
    /\ n' = k
    /\ idx_traj' = 0
    /\ list_generated' = << >>
    /\ pc' = "traj"
    /\ UNCHANGED << variant, alpha_scale, params, mat_alpha, tensor_phi, theta,
                    w, err, pi, pi_view, P, call, train_locals, counters,
                    stochastic, total_hours, hour, trajectory, sets, reporting,
                    outer, loading, features,
                    divergence, reordering >>

\* A call of AC_IRL.generate_trajectories on the object.
GenerateTrajectories(k) ==
    /\ pc = "idle"
    /\ variant = "irl"
    /\ generate_trajectories(k)

\* for idx_traj in range(n): trajectory = [], start state from mat_pi0.
TrajectoryStart(idx_row) ==
    /\ pc = "traj"
    /\ idx_traj < n
    /\ trajectory' = NoTrajectory
    /\ pi' = mat_pi0[idx_row]
    /\ pi_view' = idx_row
    /\ stochastic' = TRUE
    /\ hour' = 1
    /\ pc' = "hour"
    /\ UNCHANGED << object, params, mat_alpha, tensor_phi, theta, w, err, P, call,
                    train_locals, counters, n, total_hours, idx_traj,
                    list_generated, sets, reporting, outer, loading, features,
                    divergence, reordering >>

\* while hour < max_hour: P = sample_action(pi)
TrajectorySample ==
    /\ pc = "hour"
    /\ hour < max_hour
    /\ \E r \in SampleResults :
        /\ Kept(r)
        /\ SampleCall(r)
        /\ pc' = IF r.call.raised THEN "crashed" ELSE "append"
        /\ err' = IF r.call.raised THEN "Warning" ELSE err
    /\ UNCHANGED << object, params, theta, w, pi, pi_view, train_locals, counters,
                    stochastic, rollout, sets, reporting, outer, loading,
                    features,
                    divergence, reordering >>

\* trajectory.append((pi, P)); pi = P^T pi; hour += 1
TrajectoryAppend ==
    /\ pc = "append"
    /\ trajectory' = AppendPair(trajectory, pi, P)
    /\ pi' = Transition(P, pi)
    /\ mat_pi0' = AssignPi(mat_pi0, pi_view, pi')
    /\ pi_view' = 0
    /\ stochastic' = (stochastic /\ RowStochastic(P))
    /\ hour' = hour + 1
    /\ P' = NaNP
    /\ call' = NoCall
    /\ pc' = "hour"
    /\ UNCHANGED << object, params, mat_alpha, tensor_phi, theta, w, err,
                    train_locals, counters, n, total_hours, idx_traj,
                    list_generated, list_demonstrations, self_list_generated,
                    reporting, outer, loading, features,
                    divergence, reordering >>

\* The while loop ends: list_generated.append(trajectory).
TrajectoryEnd ==
    /\ pc = "hour"
    /\ hour = max_hour
    /\ list_generated' = Append(list_generated, Finished(it, idx_traj, trajectory))
    /\ idx_traj' = idx_traj + 1
    /\ pc' = "traj"
    /\ UNCHANGED << object, params, mat_alpha, tensor_phi, theta, w, err, pi,
                    pi_view, P, call, train_locals, counters, stochastic, n,
                    total_hours, hour, trajectory, sets, reporting, outer,
                    loading, features,
                    divergence, reordering >>

\* range(n) is exhausted: return list_generated, to outerloop or to the
\* caller of the object.  The other locals end with the call.
TrajectoriesReturn ==
    /\ pc = "traj"
    /\ idx_traj = n
    /\ IF caller = "outerloop"
       THEN /\ op' = "outerloop"
            /\ pc' = "outer_append"
       ELSE /\ pc' = "done"
            /\ op' = op
    /\ pi' = NaNPi
    /\ pi_view' = 0
    /\ trajectory' = NoTrajectory
    /\ hour' = 0
    /\ UNCHANGED << variant, alpha_scale, params, mat_alpha, tensor_phi, theta, w,
                    err, P, call, train_locals, counters, stochastic, n,
                    total_hours, idx_traj, list_generated, sets, reporting, outer,
                    loading, features,
                    divergence, reordering >>

\* AC_IRL.generate_trajectory(pi0, total_hours): pi = pi0, mat_trajectory[0] = pi.
GenerateTrajectory(idx_row, hours) ==
    /\ pc = "idle"
    /\ variant = "irl"
    /\ op' = "generate_trajectory"
    /\ total_hours' = hours
    /\ pi' = mat_pi0[idx_row]
    /\ pi_view' = idx_row
    /\ stochastic' = TRUE
    /\ trajectory' = [NoTrajectory EXCEPT !.len = 1, !.state = mat_pi0[idx_row]]
    /\ hour' = 1
    /\ pc' = "eval"
    /\ UNCHANGED << variant, alpha_scale, params, mat_alpha, tensor_phi, theta,
                    w, err, P, call, train_locals, counters, n, idx_traj,
                    list_generated, sets, reporting, outer, loading, features,
                    divergence, reordering >>

\* while hour < total_hours: P = sample_action(pi)
EvalSample ==
    /\ pc = "eval"
    /\ hour < total_hours
    /\ \E r \in SampleResults :
        /\ Kept(r)
        /\ SampleCall(r)
        /\ pc' = IF r.call.raised THEN "crashed" ELSE "store"
        /\ err' = IF r.call.raised THEN "Warning" ELSE err
    /\ UNCHANGED << object, params, theta, w, pi, pi_view, train_locals, counters,
                    stochastic, rollout, sets, reporting, outer, loading,
                    features,
                    divergence, reordering >>

\* pi_next = P^T pi; mat_trajectory[hour] = pi_next; pi = pi_next; hour += 1
EvalStore ==
    /\ pc = "store"
    /\ pi' = Transition(P, pi)
    /\ mat_pi0' = AssignPi(mat_pi0, pi_view, pi')
    /\ pi_view' = 0
    /\ trajectory' = [trajectory EXCEPT !.len = @ + 1, !.state = pi']
    /\ stochastic' = (stochastic /\ RowStochastic(P))
    /\ hour' = hour + 1
    /\ P' = NaNP
    /\ call' = NoCall
    /\ pc' = "eval"
    /\ UNCHANGED << object, params, mat_alpha, tensor_phi, theta, w, err,
                    train_locals, counters, n, total_hours, idx_traj,
                    list_generated, list_demonstrations, self_list_generated,
                    reporting, outer, loading, features,
                    divergence, reordering >>

\* The loop ends: return mat_trajectory.
EvalReturn ==
    /\ pc = "eval"
    /\ hour >= total_hours
    /\ pc' = "done"
    /\ UNCHANGED << object, params, mat_alpha, tensor_phi, theta, w, err, pi,
                    pi_view, P, call, train_locals, counters, stochastic, rollout,
                    sets, reporting, outer, loading, features,
                    divergence, reordering >>

\* -------------------------------------------------------------- outerloop
\* update_reward(self): comments and `pass`.
UpdateReward ==
    /\ pc = "idle"
    /\ variant = "irl"
    /\ op' = "update_reward"
    /\ pc' = "done"
    /\ UNCHANGED << variant, alpha_scale, params, mat_alpha, tensor_phi, theta, w,
                    err, pi, pi_view, P, call, train_locals, counters, stochastic,
                    rollout, sets, reporting, outer, loading, features,
                    divergence, reordering >>

\* A call of AC_IRL.outerloop on the object, gamma and constant at their
\* defaults.
OuterLoop(ni, ng, nfe) ==
    /\ pc = "idle"
    /\ variant = "irl"
    /\ op' = "outerloop"
    /\ caller' = "outerloop"
    /\ num_iterations' = ni
    /\ num_generated' = ng
    /\ num_forward_episodes' = nfe
    /\ it' = 0
    /\ pc' = "outer"
    /\ UNCHANGED << variant, alpha_scale, params, mat_alpha, tensor_phi, theta, w,
                    err, pi, pi_view, P, call, train_locals, counters, stochastic,
                    rollout, sets, reporting, loading, features,
                    divergence, reordering >>

\* for it in num_iterations: a number is not iterable.
OuterCrash ==
    /\ pc = "outer"
    /\ ~num_iterations.iterable
    /\ pc' = "crashed"
    /\ err' = "TypeError"
    /\ UNCHANGED << object, params, mat_alpha, tensor_phi, theta, w, pi, pi_view,
                    P, call, train_locals, counters, stochastic, rollout, sets,
                    reporting, outer, loading, features,
                    divergence, reordering >>

\* The next element of num_iterations:
\* list_generated = self.generate_trajectories(num_generated)
OuterGenerate ==
    /\ pc = "outer"
    /\ num_iterations.iterable
    /\ it < num_iterations.len
    /\ generate_trajectories(num_generated)

\* self.list_generated = self.list_generated + list_generated
OuterAppend ==
    /\ pc = "outer_append"
    /\ self_list_generated' = AppendGenerated(self_list_generated, list_generated)
    /\ list_generated' = << >>
    /\ pc' = "outer_update"
    /\ UNCHANGED << object, params, mat_alpha, tensor_phi, theta, w, err, pi,
                    pi_view, P, call, train_locals, counters, stochastic, n,
                    total_hours, idx_traj, hour, trajectory, mat_pi0,
                    list_demonstrations, reporting, outer, loading, features,
                    divergence, reordering >>

\* self.update_reward(): returns None.
OuterUpdateReward ==
    /\ pc = "outer_update"
    /\ pc' = "outer_train"
    /\ UNCHANGED << object, params, mat_alpha, tensor_phi, theta, w, err, pi,
                    pi_view, P, call, train_locals, counters, stochastic, rollout,
                    sets, reporting, outer, loading, features,
                    divergence, reordering >>

\* self.train(num_forward_episodes, gamma, constant, ..., consecutive=100, ...)
OuterTrain ==
    /\ pc = "outer_train"
    /\ train(num_forward_episodes, One, FALSE, OuterConsecutive)

\* num_iterations is exhausted: outerloop returns.
OuterReturn ==
    /\ pc = "outer"
    /\ num_iterations.iterable
    /\ it = num_iterations.len
    /\ pc' = "done"
    /\ UNCHANGED << object, params, mat_alpha, tensor_phi, theta, w, err, pi,
                    pi_view, P, call, train_locals, counters, stochastic, rollout,
                    sets, reporting, outer, loading, features,
                    divergence, reordering >>

Next ==
    \/ \E ne \in 0..MaxEpisodes : \E g \in Gammas : \E c \in BOOLEAN :
          \E cons \in 1..MaxConsecutive : Train(ne, g, c, cons)
    \/ \E idx_row \in 1..num_start_samples : EpisodeStart(idx_row)
    \/ Sample
    \/ Critic
    \/ ActorAC
    \/ ActorIRL
    \/ Advance
    \/ EpisodeEnd
    \/ TrainReturn
    \/ \E k \in 0..MaxTraj : GenerateTrajectories(k)
    \/ \E idx_row \in 1..num_start_samples : TrajectoryStart(idx_row)
    \/ TrajectorySample
    \/ TrajectoryAppend
    \/ TrajectoryEnd
    \/ TrajectoriesReturn
    \/ \E idx_row \in 1..num_start_samples : \E hours \in 1..MaxTotalHours :
          GenerateTrajectory(idx_row, hours)
    \/ EvalSample
    \/ EvalStore
    \/ EvalReturn
    \/ UpdateReward
    \/ \E ni \in Iterations : \E ng \in 0..MaxGenerated : \E nfe \in 0..MaxForward :
          OuterLoop(ni, ng, nfe)
    \/ OuterCrash
    \/ OuterGenerate
    \/ OuterAppend
    \/ OuterUpdateReward
    \/ OuterTrain
    \/ OuterReturn

Spec == Init /\ [][Next]_vars

\* ----------------------------------------------------------- construction
\* AC_IRL.__init__ before read_demonstrations: the pool is loaded, the
\* action directory holds num_file_action files.
InitLoad ==
    /\ Constructed
    /\ variant = "irl"
    /\ list_demonstrations = << >>
    /\ self_list_generated = << >>
    /\ num_file_action \in 0..MaxFiles
    /\ weird = FALSE
    /\ pc = "construct"
    /\ NoLocals
    /\ features_pi = << >>
    /\ NoArguments

\* read_demonstrations: the two counts, and "Weird" if they differ.
ReadDemonstrations ==
    /\ pc = "construct"
    /\ op' = "read_demonstrations"
    /\ weird' = (num_file_action # num_file_state)
    /\ idx_day' = 1
    /\ pc' = "read"
    /\ UNCHANGED << variant, alpha_scale, params, mat_alpha, tensor_phi, theta, w,
                    err, pi, pi_view, P, call, train_locals, counters, stochastic,
                    rollout, sets, reporting, outer, num_file_action, features,
                    divergence, reordering >>

\* for idx_day in range(1, 1+num_file_action): read the state file and the
\* action file of the day, append the trajectory of its pairs.  The state
\* files are those of days 1..num_file_state.
ReadDay ==
    /\ pc = "read"
    /\ idx_day \in Range(1, 1 + num_file_action)
    /\ IF idx_day \in 1..num_file_state
       THEN /\ list_demonstrations' = Append(list_demonstrations, DayTrajectory(idx_day))
            /\ idx_day' = idx_day + 1
            /\ UNCHANGED << pc, err >>
       ELSE /\ pc' = "crashed"
            /\ err' = "FileNotFoundError"
            /\ UNCHANGED << list_demonstrations, idx_day >>
    /\ UNCHANGED << object, params, mat_alpha, tensor_phi, theta, w, pi, pi_view,
                    P, call, train_locals, counters, stochastic, rollout, mat_pi0,
                    self_list_generated, reporting, outer, num_file_action, weird,
                    features,
                    divergence, reordering >>

\* The range is exhausted: read_demonstrations returns, and __init__ ends
\* with self.list_generated = [].
ReadReturn ==
    /\ pc = "read"
    /\ idx_day \notin Range(1, 1 + num_file_action)
    /\ self_list_generated' = << >>
    /\ idx_day' = 0
    /\ op' = "none"
    /\ pc' = "idle"
    /\ UNCHANGED << variant, alpha_scale, params, mat_alpha, tensor_phi, theta, w,
                    err, pi, pi_view, P, call, train_locals, counters, stochastic,
                    rollout, mat_pi0, list_demonstrations, reporting, outer,
                    num_file_action, weird, features,
                    divergence, reordering >>

NextLoad ==
    \/ ReadDemonstrations
    \/ ReadDay
    \/ ReadReturn
    \/ \E k \in 0..MaxTraj : GenerateTrajectories(k)
    \/ \E idx_row \in 1..num_start_samples : TrajectoryStart(idx_row)
    \/ TrajectorySample
    \/ TrajectoryAppend
    \/ TrajectoryEnd
    \/ TrajectoriesReturn

\* Construction of an AC_IRL, then a call of generate_trajectories.
SpecLoad == InitLoad /\ [][NextLoad]_vars

\* ---------------------------------------------------------- calc_features
\* The vectors calc_features is applied to.
FeatureInputs == UNION { [1..k -> 0..MaxValue] : k \in 1..MaxDim }

InitFeatures ==
    /\ Constructed
    /\ Loaded
    /\ NoLocals
    /\ features_pi \in FeatureInputs
    /\ NoArguments

\* vec_features = self.calc_features(pi)
CalcFeatures ==
    /\ pc = "idle"
    /\ op' = "calc_features"
    /\ vec_features' = calc_features(features_pi)
    /\ pc' = "done"
    /\ UNCHANGED << variant, alpha_scale, params, mat_alpha, tensor_phi, theta, w,
                    err, pi, pi_view, P, call, train_locals, counters, stochastic,
                    rollout, sets, reporting, outer, loading, features_pi,
                    divergence, reordering >>

NextFeatures == CalcFeatures

SpecFeatures == InitFeatures /\ [][NextFeatures]_vars

\* -------------------------------------------------------------------- JSD
\* Distributions of k entries over a common denominator: the numerators.
Distributions(k) == { v \in [1..k -> 0..MaxValue] : SumTo(v, k) >= 1 }

InitJSD ==
    /\ Constructed
    /\ variant = "irl"
    /\ Loaded
    /\ NoLocals
    /\ features_pi = << >>
    /\ list_rows = << >>
    /\ \E k \in 1..MaxDim :
           /\ jsd_P \in Distributions(k)
           /\ jsd_Q \in Distributions(k)
           /\ SumTo(jsd_P, k) = SumTo(jsd_Q, k)

\* self.JSD(P, Q): the arrays passed have their zeros replaced.
CallJSD ==
    /\ pc = "idle"
    /\ op' = "JSD"
    /\ jsd_value' = JSD(jsd_P, jsd_Q).value
    /\ jsd_P' = JSD(jsd_P, jsd_Q).P
    /\ jsd_Q' = JSD(jsd_P, jsd_Q).Q
    /\ pc' = "swap"
    /\ UNCHANGED << variant, alpha_scale, params, mat_alpha, tensor_phi, theta, w,
                    err, pi, pi_view, P, call, train_locals, counters, stochastic,
                    rollout, sets, reporting, outer, loading, features,
                    jsd_swapped, reordering >>

\* self.JSD(Q, P), on the same arrays.
CallJSDSwapped ==
    /\ pc = "swap"
    /\ op = "JSD"
    /\ jsd_swapped' = JSD(jsd_Q, jsd_P).value
    /\ jsd_Q' = JSD(jsd_Q, jsd_P).P
    /\ jsd_P' = JSD(jsd_Q, jsd_P).Q
    /\ pc' = "done"
    /\ UNCHANGED << object, params, mat_alpha, tensor_phi, theta, w,
                    err, pi, pi_view, P, call, train_locals, counters, stochastic,
                    rollout, sets, reporting, outer, loading, features,
                    jsd_value, reordering >>

NextJSD == CallJSD \/ CallJSDSwapped

SpecJSD == InitJSD /\ [][NextJSD]_vars

\* ---------------------------------------------------------------- reorder
\* Non-empty lists of rows of one length.
RowLists ==
    UNION { [1..r -> [1..c -> 0..MaxValue]] : r \in 1..MaxRows, c \in 0..MaxDim }

InitReorder ==
    /\ Constructed
    /\ Loaded
    /\ NoLocals
    /\ features_pi = << >>
    /\ jsd_P = << >>
    /\ jsd_Q = << >>
    /\ list_rows \in RowLists

\* self.reorder(list_rows): the rows of the list passed are replaced, and the
\* list is returned.
Reorder ==
    /\ pc = "idle"
    /\ op' = "reorder"
    /\ reordered' = reorder(list_rows)
    /\ pc' = "done"
    /\ UNCHANGED << variant, alpha_scale, params, mat_alpha, tensor_phi, theta, w,
                    err, pi, pi_view, P, call, train_locals, counters, stochastic,
                    rollout, sets, reporting, outer, loading, features,
                    divergence, list_rows >>

NextReorder == Reorder

SpecReorder == InitReorder /\ [][NextReorder]_vars

\* ----------------------------------------------------------------- claims
InRun == pc \in {"step", "critic", "actor", "advance", "hour", "append", "eval", "store"}
PoolRows == { mat_pi0[k] : k \in 1..num_start_samples }
PositiveDraws == \A i \in Idx : \A j \in Idx : call.draws[i][j] > 0

\* C1: the matrix sample_action returns has no negative entry and every row
\* of it sums to 1, whatever positive values the Gamma variates take.
C1_SampledMatrixRowStochastic ==
    (call.called /\ call.returned /\ PositiveDraws) => RowStochastic(P)

C1_Witness ==
    /\ call.called /\ call.returned /\ PositiveDraws
    /\ \E i \in Idx : \E j \in Idx : P.y[i][j] # P.y[i][1]
    /\ \A i \in Idx : P.total[i] > 1

\* C2: from a pi that is nonnegative and sums to 1, after any number of
\* steps pi_next = P^T pi with row-stochastic P the current pi (and the
\* pi_next just computed) is nonnegative and sums to 1.
C2_MassConserved ==
    InRun =>
        /\ stochastic => ValidPi(pi)
        /\ (pc \in {"actor", "advance"} /\ stochastic /\ RowStochastic(P))
              => ValidPi(pi_next)

C2_Witness ==
    /\ op = "generate_trajectories"
    /\ pc = "hour"
    /\ hour = max_hour
    /\ stochastic
    /\ ValidPi(pi)
    /\ pi \notin PoolRows

\* C3: train ends after exactly num_episodes episodes, every one of them
\* with exactly 15 sample_action calls, 15 w updates and 15 theta updates;
\* no episode ends early and none is skipped.  Stated for the objects with a
\* finite alpha_scale.
C3_TrainRunsEveryEpisode ==
    (op = "train" /\ alpha_scale # Infinity) =>
        /\ pc # "crashed"
        /\ pc = "done" => episode = num_episodes
        /\ (pc = "episode" /\ episode > 0) =>
              /\ n_sample = EpisodeLength
              /\ n_w = EpisodeLength
              /\ n_theta = EpisodeLength

\* C4: at every step of train the TD error is
\* reward + gamma * V(pi_next) - V(pi), whatever the index of the step.
C4_TDErrorWeighsByGamma ==
    (op = "train" /\ pc = "actor") =>
        /\ delta.coef = gamma
        /\ delta.v_next = pi_next
        /\ delta.v = pi

\* C5: at every step of train theta becomes theta + s * delta * g with
\* s > 0, g the gradient for the P sampled in this step, and delta the TD
\* error of this step's w update, computed from w as it was before it.
C5_ThetaStepsAlongGradient ==
    op = "train" =>
        /\ pc \in {"advance", "step", "episode", "done", "crashed"} => n_theta = n_w
        /\ pc = "advance" =>
              /\ theta_upd.sign = 1
              /\ theta_upd.rate.num > 0
              /\ theta_upd.delta = w_upd.delta
              /\ theta_upd.delta.w = w - 1
              /\ theta_upd.by.P = P

\* C6: when train calls the gradient for (P, pi), the cached concentration
\* matrix (and feature tensor) is the one written by the sample_action call
\* that produced this P from this pi under the current theta, and the
\* gradient is computed from that cache.
C6_GradientReadsCacheOfItsSample ==
    op = "train" =>
        /\ pc = "actor" =>
              /\ call.called /\ call.returned
              /\ mat_alpha.val = call.alpha
              /\ mat_alpha.theta = theta
              /\ mat_alpha.pi = pi
              /\ variant = "ac" => tensor_phi.pi = pi
        /\ pc = "advance" =>
              /\ theta_upd.by.alpha.val = call.alpha
              /\ theta_upd.by.alpha.theta = theta - 1
              /\ theta_upd.by.alpha.pi = pi
              /\ theta_upd.by.phi.pi = pi
              /\ theta_upd.by.theta = theta - 1

C6_Witness ==
    /\ op = "train"
    /\ pc = "advance"
    /\ num_steps >= 2
    /\ RowStochastic(P)
    /\ \E i \in Idx : \E j \in Idx : mat_alpha.val[i][j] > 0
    /\ theta_upd.by.alpha = mat_alpha

\* C7: in the scalar-theta variant the concentration values the gradient
\* uses are, entry by entry, the Gamma shape values sample_action drew P from.
C7_GradientAlphaIsGammaShape ==
    (variant = "irl" /\ op = "train" /\ pc = "actor") => mat_alpha.val = call.shape

\* C8: a sample_action call that computes a concentration value <= 0 ends
\* in an error, draws no Gamma variate and returns no matrix.
C8_NonPositiveAlphaFailsFast ==
    (call.called /\ NonPositive(call.alpha)) =>
        /\ call.raised
        /\ ~call.sampled
        /\ ~call.returned

\* C9: in every sample_action call Gamma variates equal to 0 are replaced by
\* the epsilon before the row is summed, so every row total is strictly
\* positive, also for a row of zeros.
C9_ZeroDrawsReplaced ==
    (call.called /\ call.returned /\ call.draws # NaNMatrix) =>
        \A i \in Idx :
            /\ P.total[i] > 0
            /\ \A j \in Idx : call.draws[i][j] = 0 => P.y[i][j] = Eps

\* C10: a numeric warning raised by the row normalisation of sample_action
\* is caught and logged, the call still returns its matrix and the episode
\* goes on.
C10_WarningRecovered ==
    (call.called /\ call.warned) =>
        /\ call.logged
        /\ call.returned
        /\ pc # "crashed"

\* C11: train reports once per window of `consecutive` episodes; the average
\* reported is the sum of the totals of the episodes completed since the
\* previous report divided by their number, and the window is emptied by
\* the report.
C11_ReportAveragesItsWindow ==
    op = "train" =>
        /\ reward_avg # NoReport =>
              /\ Len(reward_avg.window) = consecutive
              /\ reward_avg.by = Len(reward_avg.window)
        /\ pc = "episode" => Len(list_reward) = episode % consecutive

\* C12: the generated set is empty after construction; after k completed
\* iterations of outerloop it holds k * num_generated trajectories, and it
\* is, in order, the rollouts of iterations 0, 1, ... each in the order
\* of their making, so that the set after an iteration is a prefix of the
\* set after any later one.
C12_GeneratedSetAppendOnly ==
    /\ caller = "none" => self_list_generated = << >>
    /\ (caller = "outerloop" /\ pc = "outer") =>
          Len(self_list_generated) = it * num_generated
    /\ \A k \in 1..Len(self_list_generated) :
          /\ self_list_generated[k].it = (k - 1) \div num_generated
          /\ self_list_generated[k].idx = (k - 1) % num_generated

C12_Witness ==
    /\ caller = "outerloop"
    /\ pc = "outer"
    /\ it = 2
    /\ num_generated = 1
    /\ Len(self_list_generated) = 2

\* C13: whatever calls are made, the demonstrations and every row of the
\* pool keep the values they had after loading, also while pi is a view of
\* a row and after pi was given its next value.
C13_DemonstrationsAndPoolKept ==
    /\ mat_pi0 = init_pi0
    /\ list_demonstrations = [day \in 1..num_file_state |-> DayTrajectory(day)]

C13_Witness ==
    /\ caller = "outerloop"
    /\ it = 1
    /\ op = "generate_trajectories"
    /\ pc = "hour"
    /\ trajectory.len = 2
    /\ pi_view = 0
    /\ pi \notin PoolRows

\* C14: every demonstration and every trajectory generate_trajectories(n)
\* returns has exactly 15 pairs, n trajectories are returned, the first state
\* of a generated trajectory is a row of the pool, and the state of every
\* further pair is transpose(action) . state of the pair before it.
C14_TrajectoriesFifteenPairsChained ==
    /\ \A k \in 1..Len(list_demonstrations) : list_demonstrations[k].pairs = 15
    /\ \A k \in 1..Len(list_generated) : list_generated[k].pairs = 15
    /\ (op = "generate_trajectories" /\ pc = "done") => Len(list_generated) = n
    /\ (op = "generate_trajectories" /\ pc = "hour" /\ trajectory.len = 1) =>
          trajectory.state \in PoolRows
    /\ (op = "generate_trajectories" /\ pc = "append" /\ trajectory.len >= 1) =>
          pi = trajectory.succ

C14_Witness ==
    /\ op = "generate_trajectories"
    /\ pc = "done"
    /\ n = 2
    /\ Len(list_generated) = 2
    /\ Len(list_demonstrations) = 1

\* C15: outerloop called with a number num_iterations runs that many
\* iterations (trajectories, append, reward update, train) and ends.
C15_OuterLoopRunsItsIterations ==
    (caller = "outerloop" /\ ~num_iterations.iterable) =>
        /\ pc # "crashed"
        /\ pc = "done" => it = num_iterations.len

\* C16: a call of update_reward, by the user or by outerloop, ends in a
\* "not implemented" error: nothing goes on after it as if the reward had
\* been updated.
C16_RewardUpdateSignals ==
    /\ (op = "update_reward" /\ pc = "done") => err = "NotImplementedError"
    /\ pc # "outer_train"

\* C17: a rollout of generate_trajectories writes no field of the object:
\* during and after the call the fields are as they were before it.
C17_RolloutWritesNoField ==
    (op = "generate_trajectories" /\ caller = "none") =>
        /\ mat_alpha = InitAlpha
        /\ tensor_phi = InitPhi
        /\ theta = 0
        /\ w = 0
        /\ mat_pi0 = init_pi0
        /\ self_list_generated = << >>

\* C18: with directories whose file counts differ, read_demonstrations
\* prints its warning and ends without an error, reading no file that does
\* not exist, and the demonstrations it leaves have 15 pairs each.
C18_MismatchedCountsLoad ==
    (num_file_action # num_file_state /\ pc # "construct") =>
        /\ weird
        /\ pc # "crashed"
        /\ \A k \in 1..Len(list_demonstrations) : list_demonstrations[k].pairs = 15

\* The place of the product pi_a * pi_b, a <= b, among the features.
PairPosition(a, b, dd) == (a - 1) * dd - ((a - 1) * (a - 2)) \div 2 + (b - a) + 1

Entry(Pm, i, j) == Rat(Pm.y[i][j], Pm.total[i])
Mass(p, i) == Rat(p.num[i], p.den)

\* pi_i * P_ij^2 * (pi_i - pi_j)
CostTerm(Pm, p, i, j) ==
    RatMul(Mass(p, i),
           RatMul(RatMul(Entry(Pm, i, j), Entry(Pm, i, j)),
                  RatSub(Mass(p, i), Mass(p, j))))

RECURSIVE CostRow(_, _, _, _)
CostRow(Pm, p, i, j) ==
    IF j = 0 THEN [num |-> 0, den |-> 1]
    ELSE RatAdd(CostTerm(Pm, p, i, j), CostRow(Pm, p, i, j - 1))

RECURSIVE CostSum(_, _, _)
CostSum(Pm, p, i) ==
    IF i = 0 THEN [num |-> 0, den |-> 1]
    ELSE RatAdd(CostRow(Pm, p, i, d), CostSum(Pm, p, i - 1))

\* P as actor_critic.sample_action returned it.
Returned == Normalise(call.draws)

\* C20: the cost calc_cost returns for a step of actor_critic.train is
\* sum_i pi_i sum_j P_ij^2 (pi_i - pi_j), it is 0 when all entries of pi are
\* equal, and computing it leaves P and pi as sample_action returned and
\* received them.
C20_RewardIsQuadraticForm ==
    (variant = "ac" /\ op = "train" /\ pc = "actor" /\ RowStochastic(P)
         /\ ~IsNaNPi(pi)) =>
        /\ delta.reward = CostSum(P, pi, d)
        /\ (\A i \in Idx : pi.num[i] = pi.num[1]) => delta.reward.num = 0
        /\ P = Returned
        /\ pi = mat_alpha.pi

C20_Witness ==
    /\ variant = "ac"
    /\ op = "train"
    /\ pc = "actor"
    /\ RowStochastic(P)
    /\ ~IsNaNPi(pi)
    /\ delta.reward.num < 0
    /\ \E i \in Idx : \E j \in Idx : P.y[i][j] > 1

\* log(x) >= 1 - 1/x: a sum of terms coef * log(arg) of coefficients that are
\* not negative is at least the sum of coef * (1 - 1/arg).
RECURSIVE LowerBound(_)
LowerBound(value) ==
    IF value = {} THEN [num |-> 0, den |-> 1]
    ELSE LET t == CHOOSE x \in value : TRUE
         IN RatAdd(RatMul(t.coef, RatSub(One, RatDiv(One, t.arg))),
                   LowerBound(value \ {t}))

\* C21: once JSD has run on two distributions of the same length, with the
\* zeros of both replaced by the epsilon, JSD(P, Q) is the number JSD(Q, P),
\* it is not negative (its coefficients are not negative and its lower bound
\* is not below 0), and it is 0 when P equals Q.
C21_JSDSymmetricNonNegativeZeroAtEqual ==
    /\ (op = "JSD" /\ pc = "done") => jsd_value = jsd_swapped
    /\ op = "JSD" =>
           /\ \A t \in jsd_value : t.coef.num >= 0
           /\ LowerBound(jsd_value).num >= 0
           /\ (jsd_P = jsd_Q => jsd_value = {})

\* Both calls have returned: an entry of P holds the epsilon, P and Q differ
\* and the divergence is not 0.
C21_Witness ==
    /\ op = "JSD"
    /\ pc = "done"
    /\ \E i \in 1..Len(jsd_P) : jsd_P[i] = EpsJSD /\ jsd_Q[i] > EpsJSD
    /\ jsd_value # {}
    /\ jsd_swapped # {}

\* The orders of k columns.
ColumnOrders(k) == { f \in [1..k -> 1..k] : \A a, b \in 1..k : f[a] = f[b] => a = b }

\* C22: once reorder has run on a non-empty list of rows of one length, the
\* list holds as many rows, and one order of the columns gives every row of
\* the result from the row of the same position: the first row does not
\* increase, and columns of equal first-row value stay in their order.
C22_ReorderOneStablePermutation ==
    op = "reorder" =>
        /\ Len(reordered) = Len(list_rows)
        /\ \E order \in ColumnOrders(Len(list_rows[1])) :
               /\ \A i \in 1..Len(list_rows) :
                      /\ Len(reordered[i]) = Len(list_rows[i])
                      /\ \A k \in 1..Len(order) :
                             reordered[i][k] = list_rows[i][order[k]]
               /\ \A k \in 1..(Len(order) - 1) :
                      reordered[1][k] >= reordered[1][k + 1]
               /\ \A k, l \in 1..Len(order) :
                      (k < l /\ list_rows[1][order[k]] = list_rows[1][order[l]])
                          => order[k] < order[l]

\* Two rows were reordered: the first row held two equal values with a
\* greater one behind them, and the second row tells the equal columns apart.
C22_Witness ==
    /\ op = "reorder"
    /\ Len(list_rows) = 2
    /\ list_rows[1] = << 1, 1, 2 >>
    /\ list_rows[2] = << 0, 3, 1 >>
    /\ reordered = << << 2, 1, 1 >>, << 1, 0, 3 >> >>

====
